---- MODULE Spec2Model ----
(***************************************************************************)
(* Model of src/macos.rs: load_native_certs merges the User, Admin and     *)
(* System trust-settings domains into one table keyed by DER bytes, skips  *)
(* the dynamically distrusted certificates, and returns the root-trusted   *)
(* ones.  The platform (security_framework) is the environment: what it    *)
(* answers is chosen when the code asks and is recorded in `platform`, so  *)
(* that a later call reads the same data.                                  *)
(***************************************************************************)
EXTENDS Integers, Sequences, FiniteSets, TLC

VARIABLES platform, call, pc, dom, pos, all_certs, certs, ret, scanned, prev, edited

vars == <<platform, call, pc, dom, pos, all_certs, certs, ret, scanned, prev, edited>>

(* Bounds: certificates the platform yields in one call, over all domains. *)
MaxYield == 3
MaxYieldTwice == 2

(* ---------------------------------------------------------------------- *)
(* Data                                                                    *)
(* ---------------------------------------------------------------------- *)

(* for domain in &[Domain::User, Domain::Admin, Domain::System] *)
Domains == <<"User", "Admin", "System">>

(* DER encodings of the certificates the platform may hold. *)
DerA == <<48, 1, 65>>
DerB == <<48, 1, 66>>
DerX == <<48, 1, 88>>

SecCertificates == {[data |-> DerA], [data |-> DerB], [data |-> DerX]}

to_der(cert) == cert.data

Certificate(der) == [der |-> der]

(* TrustSettingsForCertificate values the lookup can report. *)
Verdicts == {"TrustRoot", "TrustAsRoot", "Deny", "Unspecified"}

(* Ok(None), Ok(Some(v)) or Err(_) of tls_trust_settings_for_certificate. *)
LookupResults == Verdicts \cup {"None", "LookupErr"}

(* Sha256 of the DER bytes; DerX is the first dynamically distrusted root. *)
Sha256(der) ==
  CASE der = DerA -> <<145, 248, 212, 110, 235, 216, 154, 170, 135, 63, 4, 147, 182, 40, 161, 11, 102, 65, 183, 138, 143, 59, 132, 89, 108, 231, 165, 20, 50, 166, 99, 76>>
    [] der = DerB -> <<71, 163, 153, 35, 21, 127, 78, 105, 134, 27, 187, 116, 68, 9, 179, 59, 147, 153, 20, 6, 176, 247, 231, 14, 103, 193, 74, 95, 180, 11, 248, 101>>
    [] der = DerX -> <<227, 38, 143, 97, 6, 186, 139, 102, 90, 26, 150, 45, 222, 161, 69, 157, 42, 70, 151, 47, 31, 36, 64, 50, 155, 57, 11, 137, 87, 73, 173, 69>>

HexDigits == <<"0", "1", "2", "3", "4", "5", "6", "7", "8", "9", "a", "b", "c", "d", "e", "f">>

(* As hex, with "{:x}": a byte below 16 gives one digit. *)
RECURSIVE hex_nopad(_)
hex_nopad(input) ==
  IF input = <<>> THEN ""
  ELSE (IF Head(input) < 16 THEN "" ELSE HexDigits[(Head(input) \div 16) + 1])
       \o HexDigits[(Head(input) % 16) + 1] \o hex_nopad(Tail(input))

(* format!("{:02x}", b) of every byte, collected into one string *)
RECURSIVE hex(_)
hex(input) ==
  IF input = <<>> THEN ""
  ELSE HexDigits[(Head(input) \div 16) + 1] \o HexDigits[(Head(input) % 16) + 1]
       \o hex(Tail(input))

(* The digests whose match arm is `continue`. *)
Distrusted ==
  {
    "e3268f6106ba8b665a1a962ddea1459d2a46972f1f2440329b390b895749ad45",
    "0ed3ffab6c149c8b4e71058e8668d429abfda681c2fff508207641f0d751a3e5",
    "f96f23f4c3e79c077a46988d5af5900676a0f039cb645dd17549b216c82440ce",
    "fcbfe2886206f72b27593c8b070297e12d769ed10ed7930705a8098effc14d17",
    "2a99f5bc1174b73cbb1d620884e01c34e51ccb3978da125f0e33268883bf4158",
    "152a402bfcdf2cd548054d2275b39c7fca3ec0978078b0f0ea76e561a6c7433e",
    "6cc05041e6445e74696c4cfbc9f80f543b7eabbb44b4ce6f787c6a9971c42f17",
    "e28393773da845a679f2080cc7fb44a3b7a1c3792cb7eb7729fdcb6a8d99aea7",
    "ae4457b40d9eda96677b0d3c92d57b5177abd7ac1037958356d1e094518be5f2",
    "507941c74460a0b47086220d4e9932572ab5d1b5bbcb8980ab1cb17651a844d2",
    "abd055c297005a89e4458ae34d4bc77e67db0fe1be575842c4efb7e8c3e05839",
    "37d51006c512eaab626421f1ec8c92013fc5f82ae98ee533eb4619b8deb4d06c",
    "b478b812250df878635c2aa7ec7d155eaa625ee82916e2cd294361886cd1fbd4",
    "70b922bfda0e3f4a342e4ee22d579ae598d071cc5ec9c30f123680340388aea5",
    "bc104f15a48be709dca542a7e1d4b9df6f054527e802eaa92d595444258afe71",
    "6fdb3f76c8b801a75338d8a50a7c02879f6198b57e594d318d3832900fedcd79",
    "56c77128d98c18d91b4cfdffbc25ee9103d4758ea2abad826a90f3457d460eb4",
    "27995829fe6a7515c1bfe848f9c4761db16c225929257bf40d0894f29ea8baf2",
    "b7c36231706e81078c367cb896198f1e3208dd926949dd8f5709a410f75b6292",
    "00309c736dd661da6f1eb24173aa849944c168a43a15bffd192eecfdb6f8dbd2",
    "a22dba681e97376e2d397d728aae3a9b6296b9fdba60bc2e11f647f2c675fb37",
    "91e5cc32910686c5cac25c18cc805696c7b33868c280caf0c72844a2a8eb91e2",
    "3c4fb0b95ab8b30032f432b86f535fe172c185d0fd39865837cf36187fa6f428",
    "c766a9bef2d4071c863a31aa4920e813b2d198608cb7b7cfe21143b836df09ea",
    "e17890ee09a3fbf4f48b9c414a17d637b7a50647e9bc752322727fcc1742a911",
    "c7ba6567de93a798ae1faa791e712d378fae1f93c4397fea441bb7cbe6fd5995",
    "21db20123660bb2ed418205da11ee7a85a65e2bc6e55b5af7e7899c8a266d92e",
    "f09b122c7114f4a09bd4ea4f4a99d558b46e4c25cd81140d29c05613914c3841",
    "d95fea3ca4eedce74cd76e75fc6d1ff62c441f0fa8bc77f034b19e5db258015d",
    "363f3c849eab03b0a2a0f636d7b86d04d3ac7fcfe26a0a9121ab9795f6e176df",
    "9d190b2e314566685be8a889e27aa8c7d7ae1d8aaddba3c1ecf9d24863cd34b9",
    "fe863d0822fe7a2353fa484d5924e875656d3dc9fb58771f6f616f9d571bc592",
    "cb627d18b58ad56dde331a30456bc65c601a4e9b18dedcea08e7daaa07815ff0",
    "53dfdfa4e297fcfe07594e8c62d5b8ab06b32c7549f38a163094fd6429d5da43",
    "b32396746453442f353e616292bb20bbaa5d23b546450fdb9c54b8386167d529",
    "8d722f81a9c113c0791df136a2966db26c950a971db46b4199f4ea54b78bfb9f",
    "a4310d50af18a6447190372a86afaf8b951ffb431d837f1e5688b45971ed1557",
    "4b03f45807ad70f21bfc2cae71c9fde4604c064cf5ffb686bae5dbaad7fdd34c",
    "61dab17b03b2c239ae41d6a0712882d1484b821d0eb895d52f0fec634db713b8",
    "c1b48299aba5208fe9630ace55ca68a03eda5a519c8802a0d3a673be8f8e557d",
    "cbb5af185e942a2402f9eacbc0ed5bb876eea3c1223623d00447e4f3ba554b65",
    "92a9d9833fe1944db366e8bfae7a95b6480c2d6c6c2a1be65d4236b608fca1bb",
    "eb04cf5eb1f39afa762f2bb120f296cba520c1b97db1589565b81cb9a17b7244",
    "69ddd7ea90bb57c93e135dc85ea6fcd5480b603239bdc454fc758b2a26cf7f79",
    "2399561127a57125de8cefea610ddf2fa078b5c8067f4e828290bfb860e84b3c",
    "4b15a4ee04f0bdb6c7ef1a15b63c72006688f7ca3d8ccdc0133b90a739e1aa55",
    "0c258a12a5674aef25f28ba7dcfaeceea348e541e6f5cc4ee63b71b361606ac3",
    "063e4afac491dfd332f3089b8542e94617d893d7fe944e10a7937ee29d9693c0",
    "8327bc8c9d69947b3de3c27511537267f59c21b9fa7b613fafbccd53b7024000",
    "ef3cb417fc8ebf6f97876c9e4ece39de1ea5fe649141d1028b7d11c0b2298ced",
    "136335439334a7698016a0d324de72284e079d7b5220bb8fbd747816eebebaca",
    "3b222e566711e992300dc0b15ab9473dafdef8c84d0cef7d3317b4c1821d1436",
    "92d8092ee77bc9208f0897dc05271894e63ef27933ae537fb983eef0eae3eec8"
  }

IsDistrusted(der) == hex(Sha256(der)) \in Distrusted

(* As unwrap_or_TrustRoot, with Deny as the default. *)
unwrap_or_Deny(r) == IF r = "None" THEN "Deny" ELSE r

(* .unwrap_or(TrustSettingsForCertificate::TrustRoot) *)
unwrap_or_TrustRoot(r) == IF r = "None" THEN "TrustRoot" ELSE r

(* As question_mark, with only the lookup's error leaving the function. *)
question_mark_lookup_only(r) == r = "LookupErr"

(* The `?` after map_err: an Err leaves the function at once. *)
question_mark(r) == r \in {"err", "LookupErr"}

(* HashMap::new(); a map is the set of its (key, value) entries. *)
EmptyMap == {}

Entry(der, trusted) == [der |-> der, trusted |-> trusted]

Keys(map) == {e.der : e \in map}

(* As or_insert, with insert: a later verdict replaces the earlier one. *)
or_insert_overwrite(map, der, trusted) ==
  {e \in map : e.der # der} \cup {Entry(der, trusted)}

(* As or_insert, keyed by the pair (der, trusted). *)
or_insert_pair(map, der, trusted) == map \cup {Entry(der, trusted)}

(* all_certs.entry(der).or_insert(trusted) *)
or_insert(map, der, trusted) ==
  IF der \in Keys(map) THEN map ELSE map \cup {Entry(der, trusted)}

(* As LoopBody, with the digest match moved before the lookup. *)
LoopBody_exclusion_first(map, der, r) ==
  IF IsDistrusted(der) THEN [err |-> FALSE, map |-> map]
  ELSE IF question_mark(r) THEN [err |-> TRUE, map |-> EmptyMap]
  ELSE [err |-> FALSE, map |-> or_insert(map, der, unwrap_or_TrustRoot(r))]

(* The body of `for cert in iter` for a certificate whose lookup answers r. *)
LoopBody(map, der, r) ==
  IF question_mark(r) THEN [err |-> TRUE, map |-> EmptyMap]
  ELSE LET trusted == unwrap_or_TrustRoot(r)
       IN  IF IsDistrusted(der) THEN [err |-> FALSE, map |-> map]
           ELSE [err |-> FALSE, map |-> or_insert(map, der, trusted)]

(* As IsRootTrust, keeping everything that is not a Deny. *)
IsRootTrust_not_deny(trusted) == trusted # "Deny"

(* if let TrustRoot | TrustAsRoot = trusted *)
IsRootTrust(trusted) == trusted \in {"TrustRoot", "TrustAsRoot"}

(* certs.push(Certificate(der)) for a root-trusted entry, nothing otherwise *)
push_if_root(v, e) ==
  IF IsRootTrust(e.trusted) THEN Append(v, Certificate(e.der)) ELSE v

(* ---------------------------------------------------------------------- *)
(* The platform as the calls have seen it                                  *)
(* ---------------------------------------------------------------------- *)

UnknownStore ==
  [open |-> "unknown", certs |-> <<>>, settings |-> [c \in SecCertificates |-> "unknown"]]

TotalYielded ==
  Len(platform[1].certs) + Len(platform[2].certs) + Len(platform[3].certs)

NoRet == [kind |-> "none"]
ErrOther == [kind |-> "Err", error |-> "Other"]
Ok(v) == [kind |-> "Ok", certs |-> v]

Init ==
  /\ platform = [d \in 1..3 |-> UnknownStore]
  /\ call = 1
  /\ pc = "open"
  /\ dom = 1
  /\ pos = 0
  /\ all_certs = EmptyMap
  /\ certs = <<>>
  /\ ret = NoRet
  /\ scanned = EmptyMap
  /\ prev = NoRet
  /\ edited = FALSE

(* ---------------------------------------------------------------------- *)
(* load_native_certs                                                       *)
(* ---------------------------------------------------------------------- *)

(* TrustSettings::new(domain).iter().map_err(..)? *)
OpenScope ==
  /\ pc = "open"
  /\ \E o \in {"ok", "err"} :
       /\ platform[dom].open \in {"unknown", o}
       /\ platform' = [platform EXCEPT ![dom].open = o]
       /\ IF question_mark(o)
          THEN /\ pc' = "done"
               /\ all_certs' = EmptyMap
               /\ ret' = ErrOther
          ELSE /\ pc' = "iter"
               /\ UNCHANGED <<all_certs, ret>>
  /\ pos' = 0
  /\ UNCHANGED <<call, dom, certs, scanned, prev, edited>>

(* One turn of `for cert in iter`: lookup, default, digest match, or_insert. *)
NextCert(bound) ==
  /\ pc = "iter"
  /\ \E cert \in SecCertificates, r \in LookupResults :
       /\ IF pos < Len(platform[dom].certs)
          THEN cert = platform[dom].certs[pos + 1]
          ELSE call = 1 /\ TotalYielded < bound
       /\ platform[dom].settings[cert] \in {"unknown", r}
       /\ platform' = [platform EXCEPT
                         ![dom].certs = IF pos < Len(@) THEN @ ELSE Append(@, cert),
                         ![dom].settings[cert] = r]
       /\ LET out == LoopBody(all_certs, to_der(cert), r)
          IN  /\ all_certs' = out.map
              /\ IF out.err
                 THEN pc' = "done" /\ ret' = ErrOther
                 ELSE pc' = "iter" /\ ret' = ret
  /\ pos' = pos + 1
  /\ UNCHANGED <<call, dom, certs, scanned, prev, edited>>

(* The domain's iterator is exhausted: next domain, or on to the filter. *)
EndScope ==
  /\ pc = "iter"
  /\ pos = Len(platform[dom].certs)
  /\ IF dom < Len(Domains)
     THEN /\ dom' = dom + 1
          /\ pc' = "open"
          /\ UNCHANGED scanned
     ELSE /\ dom' = dom
          /\ pc' = "drain"
          /\ scanned' = all_certs
  /\ UNCHANGED <<platform, call, pos, all_certs, certs, ret, prev, edited>>

(* for (der, trusted) in all_certs.drain(): push the root-trusted ones *)
Drain ==
  /\ pc = "drain"
  /\ \E e \in all_certs :
       /\ all_certs' = all_certs \ {e}
       /\ certs' = push_if_root(certs, e)
  /\ UNCHANGED <<platform, call, pc, dom, pos, ret, scanned, prev, edited>>

(* As Return, with the return inside the drain loop. *)
Return_early ==
  /\ pc = "drain"
  /\ pc' = "done"
  /\ ret' = Ok(certs)
  /\ UNCHANGED <<platform, call, dom, pos, all_certs, certs, scanned, prev, edited>>

(* Ok(certs) *)
Return ==
  /\ pc = "drain"
  /\ all_certs = {}
  /\ pc' = "done"
  /\ ret' = Ok(certs)
  /\ UNCHANGED <<platform, call, dom, pos, all_certs, certs, scanned, prev, edited>>

(* The caller calls load_native_certs once more: every local starts afresh. *)
CallAgain ==
  /\ pc = "done"
  /\ call = 1
  /\ prev' = [ret |-> ret, scanned |-> scanned]
  /\ call' = 2
  /\ pc' = "open"
  /\ dom' = 1
  /\ pos' = 0
  /\ all_certs' = EmptyMap
  /\ certs' = <<>>
  /\ ret' = NoRet
  /\ scanned' = EmptyMap
  /\ UNCHANGED <<platform, edited>>

(* Between two calls the trust settings of one certificate in one domain   *)
(* change from "no settings" to an explicit TrustRoot, or back.            *)
SwapDefault ==
  /\ pc = "done"
  /\ call = 1
  /\ \E d \in 1..3, cert \in SecCertificates :
       /\ platform[d].settings[cert] \in {"None", "TrustRoot"}
       /\ platform' = [platform EXCEPT ![d].settings[cert] =
                         IF @ = "None" THEN "TrustRoot" ELSE "None"]
  /\ edited' = TRUE
  /\ UNCHANGED <<call, pc, dom, pos, all_certs, certs, ret, scanned, prev>>

Next == OpenScope \/ NextCert(MaxYield) \/ EndScope \/ Drain \/ Return

Spec == Init /\ [][Next]_vars

NextTwice ==
  \/ OpenScope \/ NextCert(MaxYieldTwice) \/ EndScope \/ Drain \/ Return
  \/ SwapDefault \/ CallAgain

SpecTwice == Init /\ [][NextTwice]_vars

(* ---------------------------------------------------------------------- *)
(* Vocabulary of the properties, read off the platform data alone          *)
(* ---------------------------------------------------------------------- *)

RootTrustEquivalent == {"TrustRoot", "TrustAsRoot"}

Yields(d, cert) == \E i \in 1..Len(platform[d].certs) : platform[d].certs[i] = cert

Reported(d, cert) == platform[d].settings[cert]

Effective(d, cert) == IF Reported(d, cert) = "None" THEN "TrustRoot" ELSE Reported(d, cert)

ScopesOf(cert) == {d \in 1..3 : Yields(d, cert)}

Highest(cert) == CHOOSE d \in ScopesOf(cert) : \A e \in ScopesOf(cert) : d <= e

RECURSIVE DigestText(_, _)
DigestText(bytes, i) ==
  IF i > Len(bytes) THEN ""
  ELSE HexDigits[(bytes[i] \div 16) + 1] \o HexDigits[(bytes[i] % 16) + 1]
       \o DigestText(bytes, i + 1)

(* The DER encodings whose digest, written in hex, is on the list. *)
ExcludedDers ==
  {der \in {to_der(c) : c \in SecCertificates} : DigestText(Sha256(der), 1) \in Distrusted}

OnExclusionList(der) == der \in ExcludedDers

Range(v) == {v[i] : i \in 1..Len(v)}

ScanEnded == pc = "drain" \/ (pc = "done" /\ ret.kind = "Ok")

Returned == pc = "done" /\ ret.kind = "Ok"

CertA == [data |-> DerA]
CertB == [data |-> DerB]
CertX == [data |-> DerX]

(* ---------------------------------------------------------------------- *)
(* Properties                                                              *)
(* ---------------------------------------------------------------------- *)

(* C1: a certificate that is not on the exclusion list and that two or     *)
(* more domains yield with differing verdicts has, when the scan has       *)
(* ended, exactly the verdict of the highest-precedence domain that yields *)
(* it (no settings read as TrustRoot) in the merged table.                 *)
C1_Precedence ==
  ScanEnded =>
    \A cert \in SecCertificates :
      ( /\ ~OnExclusionList(to_der(cert))
        /\ \E d \in ScopesOf(cert), e \in ScopesOf(cert) :
             d # e /\ Reported(d, cert) # Reported(e, cert) )
      => /\ \E en \in scanned : en.der = to_der(cert)
         /\ \A en \in scanned :
              en.der = to_der(cert) => en.trusted = Effective(Highest(cert), cert)

(* User denies CertA, System trusts it as a root: the table says Deny. *)
C1_Witness ==
  /\ ScanEnded
  /\ Yields(1, CertA) /\ Reported(1, CertA) = "Deny"
  /\ Yields(3, CertA) /\ Reported(3, CertA) = "TrustRoot"
  /\ Entry(DerA, "Deny") \in scanned

(* C2: a certificate whose digest is on the exclusion list is never a key  *)
(* of the merged table and never in the output, whatever the domains       *)
(* report for it.                                                          *)
C2_ExclusionOverridesTrust ==
  \A cert \in SecCertificates :
    OnExclusionList(to_der(cert)) =>
      /\ to_der(cert) \notin Keys(all_certs)
      /\ to_der(cert) \notin Keys(scanned)
      /\ Certificate(to_der(cert)) \notin Range(certs)
      /\ ret.kind = "Ok" => Certificate(to_der(cert)) \notin Range(ret.certs)

(* All three domains yield CertX with an explicit TrustRoot. *)
C2_Witness ==
  /\ Returned
  /\ OnExclusionList(to_der(CertX))
  /\ \A d \in 1..3 : Yields(d, CertX) /\ Reported(d, CertX) = "TrustRoot"

(* C3: the output is exactly the merged-table entries whose verdict is     *)
(* TrustRoot or TrustAsRoot; an entry with any other verdict is absent.    *)
C3_NonRootFiltered ==
  Returned =>
    /\ Range(ret.certs) =
         {Certificate(en.der) : en \in {x \in scanned : x.trusted \in RootTrustEquivalent}}
    /\ \A en \in scanned :
         en.trusted \notin RootTrustEquivalent => Certificate(en.der) \notin Range(ret.certs)

(* One certificate ends up distrusted or unspecified, another root-trusted.*)
C3_Witness ==
  /\ Returned
  /\ \E en \in scanned : en.der = DerA /\ en.trusted \in {"Deny", "Unspecified"}
  /\ Yields(3, CertA)
  /\ Range(ret.certs) = {Certificate(DerB)}

(* C4: with "no settings" of a certificate in a domain replaced by an      *)
(* explicit TrustRoot there (or the reverse) between two calls, the second *)
(* call ends as the first did, with the same merged table and the same     *)
(* set of certificates.                                                    *)
C4_DefaultVerdictLaw ==
  (call = 2 /\ pc = "done" /\ edited) =>
    /\ ret.kind = prev.ret.kind
    /\ scanned = prev.scanned
    /\ ret.kind = "Ok" => Range(ret.certs) = Range(prev.ret.certs)

(* CertB had no settings in System at the first call and TrustRoot at the  *)
(* second, and is in both outputs.                                         *)
C4_Witness ==
  /\ call = 2 /\ pc = "done" /\ edited
  /\ ret.kind = "Ok"
  /\ Yields(3, CertB) /\ Reported(3, CertB) = "TrustRoot"
  /\ ScopesOf(CertB) = {3}
  /\ Certificate(DerB) \in Range(ret.certs)
  /\ Certificate(DerB) \in Range(prev.ret.certs)

(* C5: a domain that fails to open, or a lookup that fails, ends the call  *)
(* with an error that carries no certificates; a call that returns Ok has  *)
(* opened all three domains and read the last one to its end.              *)
C5_FatalPropagation ==
  /\ ( \/ \E d \in 1..3 : platform[d].open = "err"
       \/ \E d \in 1..3, cert \in SecCertificates : Reported(d, cert) = "LookupErr" )
     => (pc = "done" /\ ret = ErrOther /\ certs = <<>> /\ all_certs = {})
  /\ ret.kind = "Ok" =>
       /\ \A d \in 1..3 : platform[d].open = "ok"
       /\ \A d \in 1..3, cert \in SecCertificates : Reported(d, cert) # "LookupErr"
       /\ dom = 3 /\ pos = Len(platform[3].certs)

(* User and Admin were read, each with a root-trusted certificate, and     *)
(* System failed to open.                                                  *)
C5_Witness ==
  /\ pc = "done" /\ ret = ErrOther
  /\ platform[1].open = "ok" /\ Yields(1, CertA) /\ Reported(1, CertA) = "TrustRoot"
  /\ platform[2].open = "ok" /\ Yields(2, CertB) /\ Reported(2, CertB) = "None"
  /\ platform[3].open = "err"

(* C6: no two entries of the output have the same DER bytes.               *)
C6_Deduplication ==
  /\ \A i \in 1..Len(certs), j \in 1..Len(certs) : certs[i].der = certs[j].der => i = j
  /\ ret.kind = "Ok" =>
       \A i \in 1..Len(ret.certs), j \in 1..Len(ret.certs) :
         ret.certs[i].der = ret.certs[j].der => i = j

(* All three domains yield CertA, root-trusted: it is returned once.       *)
C6_Witness ==
  /\ Returned
  /\ \A d \in 1..3 : Yields(d, CertA)
  /\ ret.certs = <<Certificate(DerA)>>

(* C7: a call that returns Ok returns exactly the certificates that some   *)
(* domain yields, that are not on the exclusion list, and whose verdict in *)
(* the first domain that yields them (no settings read as TrustRoot) is    *)
(* TrustRoot or TrustAsRoot.                                               *)
C7_Characterization ==
  Returned =>
    Range(ret.certs) =
      {Certificate(to_der(cert)) :
         cert \in {x \in SecCertificates :
                     /\ ScopesOf(x) # {}
                     /\ ~OnExclusionList(to_der(x))
                     /\ Effective(Highest(x), x) \in RootTrustEquivalent}}

(* User = {}, Admin = {CertA: Deny}, System = {CertA: TrustRoot, CertB: no *)
(* settings} returns exactly CertB.                                        *)
C7_Witness ==
  /\ Returned
  /\ platform[1].certs = <<>>
  /\ platform[2].certs = <<CertA>> /\ Reported(2, CertA) = "Deny"
  /\ platform[3].certs = <<CertA, CertB>>
  /\ Reported(3, CertA) = "TrustRoot" /\ Reported(3, CertB) = "None"
  /\ Range(ret.certs) = {Certificate(DerB)}

(* C8: a second call on unchanged platform data ends as the first did, Ok  *)
(* or Err, and returns the same set of certificates.                       *)
C8_Idempotence ==
  (call = 2 /\ pc = "done" /\ ~edited) =>
    /\ ret.kind = prev.ret.kind
    /\ ret.kind = "Ok" => Range(ret.certs) = Range(prev.ret.certs)

(* Two certificates returned by both calls, in different orders.           *)
C8_Witness ==
  /\ call = 2 /\ pc = "done" /\ ~edited
  /\ ret.kind = "Ok"
  /\ Len(ret.certs) = 2
  /\ ret.certs # prev.ret.certs

(* C9: a step of the scan keeps every entry of the merged table as it is,  *)
(* and adds at most one entry, whose key was absent.                       *)
C9_WriteOnce ==
  [][ (pc \in {"open", "iter"} /\ pc' # "done") =>
        /\ \A e \in all_certs :
             e \in all_certs' /\ \A f \in all_certs' : f.der = e.der => f = e
        /\ \/ all_certs' = all_certs
           \/ \E e \in all_certs' :
                /\ e.der \notin Keys(all_certs)
                /\ all_certs' = all_certs \cup {e} ]_vars

(* Admin has just yielded CertA as Deny; the table keeps User's TrustRoot. *)
C9_Witness ==
  /\ pc = "iter" /\ dom = 2 /\ pos >= 1
  /\ platform[2].certs[pos] = CertA /\ Reported(2, CertA) = "Deny"
  /\ Yields(1, CertA) /\ Reported(1, CertA) = "TrustRoot"
  /\ all_certs = {Entry(DerA, "TrustRoot")}

(* C10: a failed lookup ends the call with an error also for a certificate *)
(* that is on the exclusion list or that a higher-precedence domain has    *)
(* already yielded.                                                        *)
C10_LookupBeforeExclusion ==
  \A d \in 1..3, cert \in SecCertificates :
    ( /\ Yields(d, cert)
      /\ Reported(d, cert) = "LookupErr"
      /\ \/ OnExclusionList(to_der(cert))
         \/ \E h \in 1..3 : h < d /\ Yields(h, cert) )
    => (pc = "done" /\ ret = ErrOther)

(* The lookup for CertX, which is on the exclusion list, failed in Admin   *)
(* after User had yielded it.                                              *)
C10_Witness ==
  /\ pc = "done" /\ ret = ErrOther
  /\ Yields(1, CertX) /\ Reported(1, CertX) = "TrustRoot"
  /\ Yields(2, CertX) /\ Reported(2, CertX) = "LookupErr"

====
